---------------------------- MODULE Spec2Model ----------------------------
(***************************************************************************)
(* A model of the Telegram <-> OpenRouter relay bot.                       *)
(*                                                                         *)
(*   src/main.py                   the entry point and its secrets check   *)
(*   src/src/bot/telegram_bot.py   the handlers, the two global dicts and  *)
(*                                 main(): start and shutdown of the bot   *)
(*   src/src/api/openrouter_api.py the catalog cache, the completion       *)
(*                                 client and its HTTP session             *)
(*                                                                         *)
(* Every handler is a coroutine on one asyncio event loop: the code        *)
(* between two suspending awaits runs atomically, and one action of the    *)
(* model is exactly one such stretch.  Handlers that are suspended are     *)
(* kept in msg_tasks / page_tasks and may be resumed in any order: the     *)
(* code takes no lock around user_sessions, model_storage or the cache     *)
(* file.                                                                   *)
(*                                                                         *)
(* Texts (message contents, ids, payloads, file contents) are sequences of *)
(* tokens; the token ":" is the one character the code splits on.          *)
(***************************************************************************)
EXTENDS Integers, Sequences, FiniteSets, Bags, TLC

VARIABLES
    user_sessions,  \* telegram_bot.py:38  dict user id -> session dict
    model_storage,  \* telegram_bot.py:41  dict model id -> descriptor
    cache_file,     \* data/models_cache.json: [exists, text]
    msg_tasks,      \* suspended handle_message coroutines; before and stale
                    \* are ghosts: the chat_history the message found, and
                    \* whether a /reset of the user ran since
    page_tasks,     \* suspended display_models coroutines
    appended,       \* ghost: per user, the turns appended since the last reset
    nmsg,           \* ghost: per user, the free-text messages accepted so far
    persisted,      \* ghost: the list the last completed cache write was given
    process,        \* the interpreter: the script started, the secrets of its
                    \* environment, where main is, the exit code
    http_session,   \* openrouter_api.py:33  self._session; created and closed
                    \* are ghosts, the sessions constructed and closed so far
    io,             \* ghost: the I/O operations of the last step, in order
    done            \* ghost: the handler call that returned last

vars == <<user_sessions, model_storage, cache_file, msg_tasks, page_tasks,
          appended, nmsg, persisted, process, http_session, io, done>>

-----------------------------------------------------------------------------
(* Bounds of the model *)

\* free-text messages accepted over a run
MaxMsgs == 6
\* free-text messages accepted over a run of Spec, where every handler runs
MaxMsgsAll == 1
\* handlers in flight at once where handlers are interleaved, and the
\* free-text messages accepted over such a run
MaxConcurrent == 2
MaxMsgsConcurrent == 2
\* the largest page index the payload of a pressed page button carries
MaxPageRequest == 3
\* the longest catalog handed to the free filter when it is called directly
MaxCatalogLen == 3
\* the largest limit a direct call of get_free_models passes
MaxLimit == 2

Users == {"u1", "u2"}

-----------------------------------------------------------------------------
(* Texts *)

Digit(d) == <<"0", "1", "2", "3", "4", "5", "6", "7", "8", "9">>[d + 1]

\* the decimal numeral of n < 100, as in an f-string
Str(n) == IF n < 10 THEN <<Digit(n)>> ELSE <<Digit(n \div 10), Digit(n % 10)>>

\* the text of user u's n-th free-text message, and of the completion it gets
Prompt(u, n) == <<"q", u>> \o Str(n)
Completion(u, n) == <<"a", u>> \o Str(n)

\* python: sub in s, for a one-token needle
Contains(s, tok) == \E i \in 1..Len(s) : s[i] = tok

\* python: needle in text, for token sequences
ContainsSeq(text, needle) ==
    \E i \in 0..(Len(text) - Len(needle)) :
        SubSeq(text, i + 1, i + Len(needle)) = needle

\* index of the first sep in s, 0 when there is none
FirstSep(s, sep) ==
    IF Contains(s, sep)
    THEN CHOOSE i \in 1..Len(s) : s[i] = sep /\ \A j \in 1..(i - 1) : s[j] # sep
    ELSE 0

\* python: s.split(sep)
RECURSIVE Split(_, _)
Split(s, sep) ==
    LET i == FirstSep(s, sep) IN
    IF i = 0 THEN <<s>>
    ELSE <<SubSeq(s, 1, i - 1)>> \o Split(SubSeq(s, i + 1, Len(s)), sep)

-----------------------------------------------------------------------------
(* The session store: telegram_bot.py, user_sessions *)

\* the cap on chat_history
HistoryLimit == 10

UserTurn(content) == [role |-> "user", content |-> content]
AssistantTurn(content) == [role |-> "assistant", content |-> content]

\* python: {}
EmptyDict == [k \in {} |-> k]

\* python: d[key] = value on a dict d, modelled as a function
DictSet(d, key, value) ==
    [k \in DOMAIN d \cup {key} |-> IF k = key THEN value ELSE d[k]]

\* python: d.get(key, default)
Get(d, key, default) == IF key \in DOMAIN d THEN d[key] ELSE default

\* handle_message: the guard that rejects a user who picked no model
NoModelSelected(sessions, u) ==
    IF u \notin DOMAIN sessions THEN TRUE
    ELSE "selected_model" \notin DOMAIN sessions[u]

\* python: user_sessions[u]["chat_history"].append(turn)
AppendTurn(sessions, u, turn) ==
    [sessions EXCEPT ![u] =
        DictSet(@, "chat_history", Append(@["chat_history"], turn))]

\* python: h[-10:] when len(h) > 10
LimitHistory(h) ==
    IF Len(h) > HistoryLimit
    THEN SubSeq(h, Len(h) - HistoryLimit + 1, Len(h))
    ELSE h

\* python: h[:-1]
ExcludeLast(h) == IF Len(h) = 0 THEN <<>> ELSE SubSeq(h, 1, Len(h) - 1)

SessionsOnMessageLazy(sessions, u, prompt) ==
    IF u \notin DOMAIN sessions
    THEN DictSet(sessions, u, [chat_history |-> <<>>])
    ELSE IF "selected_model" \notin DOMAIN sessions[u]
    THEN sessions
    ELSE AppendTurn(sessions, u, UserTurn(prompt))

\* handle_message up to its first await: user_sessions after the guard and
\* the append of the user's turn
SessionsOnMessage(sessions, u, prompt) ==
    IF NoModelSelected(sessions, u)
    THEN sessions
    ELSE AppendTurn(sessions, u, UserTurn(prompt))

SessionsOnResponseRollback(sessions, u, result) ==
    [sessions EXCEPT ![u] =
        DictSet(@, "chat_history",
                IF result.raised THEN ExcludeLast(@["chat_history"])
                ELSE LimitHistory(Append(@["chat_history"], AssistantTurn(result.value))))]

SessionsOnResponsePartial(sessions, u, result) ==
    [sessions EXCEPT ![u] =
        DictSet(@, "chat_history",
                LimitHistory(Append(@["chat_history"], AssistantTurn(result.value))))]

\* handle_message after generate_response: result is [raised, value]; a
\* raised exception skips the append and the truncation
SessionsOnResponse(sessions, u, result) ==
    IF result.raised
    THEN sessions
    ELSE [sessions EXCEPT ![u] =
            DictSet(@, "chat_history",
                    LimitHistory(Append(@["chat_history"], AssistantTurn(result.value))))]

SessionsOnSelectionFresh(sessions, u, model_id) ==
    DictSet(sessions, u, [chat_history |-> <<>>, selected_model |-> model_id])

\* model_selection: create the session when missing, then set selected_model
SessionsOnSelection(sessions, u, model_id) ==
    LET s == IF u \in DOMAIN sessions THEN sessions[u] ELSE [chat_history |-> <<>>]
    IN  DictSet(sessions, u, DictSet(s, "selected_model", model_id))

SessionsOnResetAll(sessions, u) ==
    [v \in DOMAIN sessions |-> DictSet(sessions[v], "chat_history", <<>>)]

SessionsOnResetDrop(sessions, u) ==
    IF u \in DOMAIN sessions
    THEN [sessions EXCEPT ![u] = [chat_history |-> <<>>]]
    ELSE sessions

\* reset_chat
SessionsOnReset(sessions, u) ==
    IF u \in DOMAIN sessions
    THEN [sessions EXCEPT ![u] = DictSet(@, "chat_history", <<>>)]
    ELSE sessions

-----------------------------------------------------------------------------
(* The completion client: openrouter_api.py, generate_response *)

BuildMessagesPromptFirst(chat_history, prompt) ==
    <<UserTurn(prompt)>> \o chat_history

\* the message list: the history, then the current request
BuildMessages(chat_history, prompt) ==
    chat_history \o <<UserTurn(prompt)>>

\* the JSON body of the POST
RequestData(model_id, prompt, chat_history) ==
    [model |-> model_id, messages |-> BuildMessages(chat_history, prompt)]

HistoryAfterCallAliased(chat_history, prompt) ==
    Append(chat_history, UserTurn(prompt))

\* the caller's chat_history list once generate_response has built its
\* request: messages is a new list, the argument is only read
HistoryAfterCall(chat_history, prompt) == chat_history

InternalError == <<"Internal Server Error">>

\* the JSON of a completion: {"choices": [{"message": {"content": ...}}]}
CompletionJson(content) == [choices |-> <<[message |-> [content |-> content]]>>]

\* what the completion endpoint may answer to user u's n-th message
CompletionResponses(u, n) ==
    { [status |-> 200, body |-> Completion(u, n), data |-> CompletionJson(Completion(u, n))],
      [status |-> 500, body |-> InternalError, data |-> EmptyDict] }

\* success-status JSON that lacks an expected field: no "choices", an empty
\* "choices", a first choice without "message", a message without "content"
MalformedJson ==
    { EmptyDict,
      [choices |-> <<>>],
      [choices |-> <<EmptyDict>>],
      [choices |-> <<[message |-> EmptyDict]>>] }

MalformedCompletions ==
    { [status |-> 200, body |-> <<>>, data |-> json] : json \in MalformedJson }

\* the answers to user u's n-th message, malformed ones included when asked
Completions(u, n, malformed) ==
    CompletionResponses(u, n) \cup (IF malformed THEN MalformedCompletions ELSE {})

\* response_data.get("choices", [{}])[0].get("message", {}).get("content", ""):
\* [0] raises IndexError on an empty list
ExtractContent(response_data) ==
    LET choices == Get(response_data, "choices", <<EmptyDict>>) IN
    IF Len(choices) = 0
    THEN [raised |-> TRUE, value |-> <<"list index out of range">>]
    ELSE [raised |-> FALSE,
          value |-> Get(Get(choices[1], "message", EmptyDict), "content", <<>>)]

\* generate_response after the POST: the content, or the raised exception's text
GenerateResult(resp) ==
    IF resp.status # 200
    THEN [raised |-> TRUE, value |-> <<"Error generating response: ">> \o resp.body]
    ELSE ExtractContent(resp.data)

-----------------------------------------------------------------------------
(* The catalog the remote endpoint serves *)

\* a free-tier model as OpenRouter lists it: the id ends in ":free"
FreeEntry(k) ==
    [id |-> <<"vendor/m">> \o Str(k) \o <<":", "free">>,
     name |-> <<"Model ">> \o Str(k) \o <<" (", "free", ")">>,
     description |-> <<"tier ">> \o Str(k),
     context_length |-> 1024 * k]

\* free by its name only, context_length left out
NameFreeEntry ==
    [id |-> <<"vendor/beta">>, name |-> <<"Beta ", "Free">>]

PaidEntry ==
    [id |-> <<"vendor/paid">>, name |-> <<"Paid">>,
     description |-> <<"paid">>, context_length |-> 32768]

SmallCatalog == <<PaidEntry, FreeEntry(2), NameFreeEntry>>

LargeCatalog == [k \in 1..7 |-> FreeEntry(k)]

\* twelve free models: three pages
TwelveCatalog == [k \in 1..12 |-> FreeEntry(k)]

\* the lists a successful GET /models may carry in "data"
Catalogs == { <<>>, SmallCatalog, LargeCatalog, TwelveCatalog }

\* the ones of a single page
ShortCatalogs == { <<>>, SmallCatalog }

\* what the catalog endpoint may answer when it serves one of catalogs
CatalogResponsesOver(catalogs) ==
    { [status |-> 200, body |-> <<>>, data |-> c] : c \in catalogs }
    \cup { [status |-> 500, body |-> InternalError, data |-> <<>>] }

\* free by their names only: a capitalised "Free", and "free" inside a
\* longer name
ExampleFree ==
    [id |-> <<"vendor/a">>, name |-> <<"Free">>,
     description |-> <<"a">>, context_length |-> 8192]
ExampleFreeMini ==
    [id |-> <<"vendor/b">>, name |-> <<"free", "-mini">>,
     description |-> <<"b">>, context_length |-> 4096]

\* the entries the catalogs of direct calls are made of
EntryPool == {ExampleFree, ExampleFreeMini, PaidEntry, NameFreeEntry, FreeEntry(2)}

\* every list of at most MaxCatalogLen entries of the pool
BoundedCatalogs == UNION { [1..k -> EntryPool] : k \in 0..MaxCatalogLen }

\* the limit argument of get_free_models: None, or an int
Limits == {[given |-> FALSE, value |-> 0]}
          \cup { [given |-> TRUE, value |-> v] : v \in (-1)..MaxLimit }

-----------------------------------------------------------------------------
(* The catalog cache: openrouter_api.py, get_available_models *)

JsonToken(t, v) == [t |-> t, v |-> v]
NoValue == [id |-> <<>>]

DumpJsonNoItems(models_data) ==
    <<JsonToken("[", NoValue), JsonToken("]", NoValue)>>

\* json.dump(models_data, f, indent=2): the text of the file
DumpJson(models_data) ==
    <<JsonToken("[", NoValue)>>
    \o [i \in 1..Len(models_data) |-> JsonToken("item", models_data[i])]
    \o <<JsonToken("]", NoValue)>>

\* json.load(f): [ok, value]; ok is FALSE when the text is no JSON array
LoadJson(text) ==
    IF /\ Len(text) >= 2
       /\ text[1].t = "["
       /\ text[Len(text)].t = "]"
       /\ \A i \in 2..(Len(text) - 1) : text[i].t = "item"
    THEN [ok |-> TRUE, value |-> [i \in 1..(Len(text) - 2) |-> text[i + 1].v]]
    ELSE [ok |-> FALSE, value |-> <<>>]

NoFile == [exists |-> FALSE, text |-> <<>>]
FileWith(text) == [exists |-> TRUE, text |-> text]

CachedModelsInverted(file) ==
    IF /\ file.exists
       /\ LoadJson(file.text).ok
       /\ LoadJson(file.text).value = <<>>
    THEN [hit |-> TRUE, models_data |-> LoadJson(file.text).value]
    ELSE [hit |-> FALSE, models_data |-> <<>>]

\* the cache branch with use_cache=True: a hit needs the file to exist, to
\* parse, and to hold a non-empty list ("if models_data:")
CachedModels(file) ==
    IF /\ file.exists
       /\ LoadJson(file.text).ok
       /\ LoadJson(file.text).value # <<>>
    THEN [hit |-> TRUE, models_data |-> LoadJson(file.text).value]
    ELSE [hit |-> FALSE, models_data |-> <<>>]

FetchResultUnchecked(resp) ==
    [raised |-> FALSE, value |-> <<>>, models_data |-> resp.data]

\* the GET's outcome: the list under "data", or the raised exception's text
FetchResult(resp) ==
    IF resp.status # 200
    THEN [raised |-> TRUE, value |-> <<"Error fetching models: ">> \o resp.body,
          models_data |-> <<>>]
    ELSE [raised |-> FALSE, value |-> <<>>, models_data |-> resp.data]

\* _save_models_cache_sync: open(..., 'w') truncates the file
FileOnOpen(file) == FileWith(<<>>)

\* _save_models_cache_sync: json.dump into the opened file, then close; the
\* text is written from offset 0 over whatever the file holds by then
FileOnWrite(file, models_data) ==
    LET text == DumpJson(models_data) IN
    FileWith(text \o SubSeq(file.text, Len(text) + 1, Len(file.text)))

\* the same when the write raises after k tokens reached the disk
FileOnPartialWrite(file, models_data, k) ==
    FileWith(SubSeq(DumpJson(models_data), 1, k)
             \o SubSeq(file.text, k + 1, Len(file.text)))

\* how many tokens of the dump may reach the disk: all of them, or any
\* shorter prefix when the write may raise
WriteOutcomes(models_data, may_raise) ==
    IF may_raise THEN 0..Len(DumpJson(models_data))
    ELSE {Len(DumpJson(models_data))}

MakedirsError == <<"[Errno 13] Permission denied: ", "data">>

\* get_available_models from the GET's answer to the await of
\* run_in_executor: _save_models_cache calls os.makedirs before its try, so
\* an exception of os.makedirs leaves get_available_models
SaveStart(result, made) ==
    IF result.raised \/ made THEN result
    ELSE [raised |-> TRUE, value |-> MakedirsError, models_data |-> <<>>]

-----------------------------------------------------------------------------
(* The free filter: openrouter_api.py, get_free_models *)

\* python: tok.lower()
Lower(tok) ==
    CASE tok = "Free" -> "free"
      [] tok = "FREE" -> "free"
      [] OTHER -> tok

\* python: "free" in text.lower()
HasFree(text) == \E i \in 1..Len(text) : Lower(text[i]) = "free"

IsFreeInId(model) == HasFree(Get(model, "id", <<>>))

IsFreeInName(model) ==
    HasFree(Get(model, "id", <<>>)) \/ HasFree(Get(model, "name", <<>>))

\* the descriptor get_free_models builds for a free model; every entry of a
\* catalog carries id and name, so the None of model.get("id") never arises
Descriptor(model) ==
    [id |-> Get(model, "id", <<>>),
     name |-> Get(model, "name", <<>>),
     description |-> Get(model, "description", <<>>),
     context_length |-> Get(model, "context_length", 4096),
     is_free |-> TRUE]

\* the filter loop
RECURSIVE FilterFree(_)
FilterFree(models_data) ==
    IF models_data = <<>> THEN <<>>
    ELSE (IF IsFreeInName(Head(models_data))
          THEN <<Descriptor(Head(models_data))>> ELSE <<>>)
         \o FilterFree(Tail(models_data))

\* insert x after the entries whose context_length is >= x's (stable)
RECURSIVE InsertByContext(_, _)
InsertByContext(sorted, x) ==
    IF sorted = <<>> THEN <<x>>
    ELSE IF Head(sorted).context_length >= x.context_length
    THEN <<Head(sorted)>> \o InsertByContext(Tail(sorted), x)
    ELSE <<x>> \o sorted

KeepOrder(models) == models

\* list.sort(key=lambda x: -x["context_length"])
RECURSIVE SortByContext(_)
SortByContext(models) ==
    IF models = <<>> THEN <<>>
    ELSE InsertByContext(SortByContext(SubSeq(models, 1, Len(models) - 1)),
                         models[Len(models)])

NoLimit == [given |-> FALSE, value |-> 0]

GetFreeModelsAnyLimit(models_data, limit) ==
    LET free_models == SortByContext(FilterFree(models_data)) IN
    IF limit.given /\ limit.value # 0
    THEN SubSeq(free_models, 1,
                IF limit.value < 0 THEN Len(free_models) + limit.value
                ELSE IF limit.value < Len(free_models) THEN limit.value
                ELSE Len(free_models))
    ELSE free_models

\* get_free_models(limit) over the list get_available_models returned
GetFreeModels(models_data, limit) ==
    LET free_models == SortByContext(FilterFree(models_data)) IN
    IF limit.given /\ limit.value > 0
    THEN SubSeq(free_models, 1,
                IF limit.value < Len(free_models) THEN limit.value ELSE Len(free_models))
    ELSE free_models

-----------------------------------------------------------------------------
(* Telegram and HTTP operations, as recorded in io *)

ReplyText(u, text, markup) ==
    [op |-> "reply_text", to |-> u, text |-> text, reply_markup |-> markup]
SendChatAction(u) ==
    [op |-> "send_chat_action", to |-> u, text |-> <<"typing">>, reply_markup |-> <<>>]
AnswerQuery(u, text) ==
    [op |-> "answer", to |-> u, text |-> text, reply_markup |-> <<>>]
EditMessageText(u, text, markup) ==
    [op |-> "edit_message_text", to |-> u, text |-> text, reply_markup |-> markup]
\* POST /chat/completions: call holds generate_response's arguments and
\* after the caller's chat_history list once the request is built
PostCompletion(data, call, after) ==
    [op |-> "post", data |-> data, call |-> call, after |-> after]
GetModels == [op |-> "get"]

\* what a step starts with: an update of the given kind from user u, or the
\* completion of the await a handler was suspended in
Update(kind, u, data) == [op |-> "update", kind |-> kind, from |-> u, data |-> data]
Resume(await, resp) == [op |-> "resume", await |-> await, resp |-> resp]
NoResponse == [status |-> 0, body |-> <<>>, data |-> <<>>]
\* the awaited call raised
Raised(e) == [status |-> -1, body |-> e, data |-> <<>>]

SelectModelFirst == <<"Please select a model first using the /models command">>

\* handle_message's except branch: the reply for str(e)
GenerationErrorReply(e) ==
    <<"An error occurred while generating response: ">> \o e

\* the callback_data of a model button
ModelButtonData(id) == <<"model", ":">> \o id

\* model_selection: query.data.split(':')[1]
SelectedId(data) == Split(data, ":")[2]

\* model_selection: the name shown for the picked id
SelectedName(storage, model_id) ==
    IF model_id \in DOMAIN storage
    THEN (IF Get(storage[model_id], "is_free", FALSE) THEN <<"FREE ">> ELSE <<>>)
         \o storage[model_id].name
    ELSE <<"selected model">>

SelectionText(storage, model_id) ==
    <<"You selected model: ">> \o SelectedName(storage, model_id)
    \o <<"\n\nYou can now start chatting. Just send a message.">>

ResetText ==
    <<"Chat history has been reset. You can continue chatting with your selected model.">>

\* the ids of the model buttons a user may press: keyboards stay in the chat,
\* so any id of any catalog served so far
ButtonIds == { FreeEntry(2).id, NameFreeEntry.id }

-----------------------------------------------------------------------------
(* Ghost records *)

NoExpect == [valid |-> FALSE, models_data |-> <<>>]

NoDone ==
    [kind |-> "none", user |-> "", n |-> 0, outcome |-> "", replies |-> 0,
     id |-> <<>>, body |-> <<>>, source |-> "", models_data |-> <<>>,
     expect |-> NoExpect, limit |-> NoLimit, free_models |-> <<>>]

\* free-text messages accepted so far, over all users
RECURSIVE SumOver(_, _)
SumOver(f, S) ==
    IF S = {} THEN 0
    ELSE LET x == CHOOSE x \in S : TRUE IN f[x] + SumOver(f, S \ {x})

Accepted == SumOver(nmsg, Users)

\* suspended handlers of both kinds
InFlight == Cardinality(msg_tasks) + BagCardinality(page_tasks)

SessionVars == <<user_sessions, appended, nmsg, msg_tasks>>

CatalogVars == <<model_storage, cache_file, page_tasks, persisted>>

-----------------------------------------------------------------------------
(* The surroundings of the handlers *)

\* the lists the catalog endpoint serves, and what may go wrong around the
\* handlers: a disk operation of the cache save, the typing indicator, the
\* shape of a completion's JSON
Nominal == [catalogs |-> Catalogs, disk |-> FALSE, telegram |-> FALSE, shapes |-> FALSE]
ShortLists == [Nominal EXCEPT !.catalogs = ShortCatalogs]
FailingDisk == [Nominal EXCEPT !.disk = TRUE]
FailingChat == [Nominal EXCEPT !.telegram = TRUE, !.shapes = TRUE]

\* the outcomes of a call that may raise: TRUE when it returns
Outcomes(may_raise) == IF may_raise THEN {TRUE, FALSE} ELSE {TRUE}

-----------------------------------------------------------------------------
(* handle_message *)

\* a free-text message of a user with no selected model: one fixed reply
HandleMessageNoModel(u, limit) ==
    /\ InFlight < limit
    /\ NoModelSelected(user_sessions, u)
    /\ user_sessions' = SessionsOnMessage(user_sessions, u, Prompt(u, nmsg[u] + 1))
    /\ io' = <<Update("message", u, Prompt(u, nmsg[u] + 1)),
               ReplyText(u, SelectModelFirst, <<>>)>>
    /\ done' = [NoDone EXCEPT !.kind = "handle_message", !.user = u,
                              !.outcome = "no_model", !.replies = 1]
    /\ UNCHANGED <<appended, nmsg, msg_tasks, CatalogVars>>

\* a free-text message of a user with a selected model, up to the await of
\* send_chat_action
HandleMessageAccept(u, limit, budget) ==
    /\ InFlight < limit
    /\ Accepted < budget
    /\ ~NoModelSelected(user_sessions, u)
    /\ nmsg' = [nmsg EXCEPT ![u] = @ + 1]
    /\ user_sessions' = SessionsOnMessage(user_sessions, u, Prompt(u, nmsg'[u]))
    /\ appended' = [appended EXCEPT ![u] = Append(@, UserTurn(Prompt(u, nmsg'[u])))]
    /\ msg_tasks' = msg_tasks \cup
          { [user |-> u, n |-> nmsg'[u], pc |-> "typing",
             user_message |-> Prompt(u, nmsg'[u]),
             selected_model |-> user_sessions[u]["selected_model"], replies |-> 0,
             before |-> user_sessions[u]["chat_history"], stale |-> FALSE] }
    /\ io' = <<Update("message", u, Prompt(u, nmsg'[u])), SendChatAction(u)>>
    /\ UNCHANGED <<done, CatalogVars>>

TimedOut == <<"Timed out">>

\* resumed after send_chat_action: generate_response up to the await of the
\* POST; send_chat_action is awaited before the try, so when it raises the
\* exception leaves handle_message
HandleMessagePost(t, sent) ==
    /\ t \in msg_tasks
    /\ t.pc = "typing"
    /\ IF sent
       THEN /\ LET chat_history == ExcludeLast(user_sessions[t.user]["chat_history"]) IN
               io' = <<Resume("send_chat_action", NoResponse),
                       PostCompletion(
                          RequestData(t.selected_model, t.user_message, chat_history),
                          [model_id |-> t.selected_model, prompt |-> t.user_message,
                           chat_history |-> chat_history],
                          HistoryAfterCall(chat_history, t.user_message))>>
            /\ msg_tasks' = (msg_tasks \ {t}) \cup {[t EXCEPT !.pc = "posted"]}
            /\ UNCHANGED done
       ELSE /\ io' = <<Resume("send_chat_action", Raised(TimedOut))>>
            /\ msg_tasks' = msg_tasks \ {t}
            /\ done' = [NoDone EXCEPT !.kind = "handle_message", !.user = t.user,
                                      !.n = t.n, !.outcome = "raised",
                                      !.body = TimedOut]
    /\ UNCHANGED <<user_sessions, appended, nmsg, CatalogVars>>

HandleMessageCompleteRetry(t, resp) ==
    /\ t \in msg_tasks
    /\ t.pc = "posted"
    /\ LET chat_history == ExcludeLast(user_sessions[t.user]["chat_history"]) IN
       io' = <<Resume("post", resp),
               PostCompletion(
                  RequestData(t.selected_model, t.user_message, chat_history),
                  [model_id |-> t.selected_model, prompt |-> t.user_message,
                   chat_history |-> chat_history],
                  chat_history)>>
    /\ UNCHANGED <<user_sessions, appended, nmsg, msg_tasks, done, CatalogVars>>

\* resumed with the endpoint's answer: the rest of handle_message
HandleMessageComplete(t, resp) ==
    /\ t \in msg_tasks
    /\ t.pc = "posted"
    /\ LET result == GenerateResult(resp) IN
       /\ user_sessions' = SessionsOnResponse(user_sessions, t.user, result)
       /\ appended' = IF result.raised THEN appended
                      ELSE [appended EXCEPT ![t.user] = Append(@, AssistantTurn(result.value))]
       /\ io' = <<Resume("post", resp),
                  ReplyText(t.user,
                            IF result.raised THEN GenerationErrorReply(result.value)
                            ELSE result.value, <<>>)>>
       /\ done' = [NoDone EXCEPT !.kind = "handle_message", !.user = t.user, !.n = t.n,
                                 !.outcome = IF result.raised THEN "error" ELSE "ok",
                                 !.replies = t.replies + 1,
                                 !.body = resp.body]
    /\ msg_tasks' = msg_tasks \ {t}
    /\ UNCHANGED <<nmsg, CatalogVars>>

-----------------------------------------------------------------------------
(* model_selection and reset_chat *)

\* a model button pressed: the button was rendered for id
ModelSelection(u, id, limit) ==
    /\ InFlight < limit
    /\ id \in ButtonIds
    /\ LET model_id == SelectedId(ModelButtonData(id)) IN
       /\ user_sessions' = SessionsOnSelection(user_sessions, u, model_id)
       /\ io' = <<Update("callback_query", u, ModelButtonData(id)),
                  AnswerQuery(u, <<>>),
                  EditMessageText(u, SelectionText(model_storage, model_id), <<>>)>>
    /\ done' = [NoDone EXCEPT !.kind = "model_selection", !.user = u, !.id = id,
                              !.outcome = "ok"]
    /\ UNCHANGED <<appended, nmsg, msg_tasks, CatalogVars>>

\* /reset
ResetChat(u, limit) ==
    /\ InFlight < limit
    /\ user_sessions' = SessionsOnReset(user_sessions, u)
    /\ appended' = [appended EXCEPT ![u] = <<>>]
    /\ io' = <<Update("command", u, <<"/reset">>), ReplyText(u, ResetText, <<>>)>>
    /\ done' = [NoDone EXCEPT !.kind = "reset_chat", !.user = u, !.outcome = "ok",
                              !.replies = 1]
    /\ msg_tasks' = { IF t.user = u THEN [t EXCEPT !.stale = TRUE] ELSE t : t \in msg_tasks }
    /\ UNCHANGED <<nmsg, CatalogVars>>

\* the chat handlers: limit bounds the handlers in flight, budget the
\* messages, env says what may go wrong
ChatStep(limit, budget, env) ==
    \/ \E u \in Users : HandleMessageNoModel(u, limit)
    \/ \E u \in Users : HandleMessageAccept(u, limit, budget)
    \/ \E t \in msg_tasks : \E sent \in Outcomes(env.telegram) : HandleMessagePost(t, sent)
    \/ \E t \in msg_tasks : \E resp \in Completions(t.user, t.n, env.shapes) :
          HandleMessageComplete(t, resp)
    \/ \E u \in Users : \E id \in ButtonIds : ModelSelection(u, id, limit)
    \/ \E u \in Users : ResetChat(u, limit)

-----------------------------------------------------------------------------
(* display_models: pagination and the keyboard *)

ModelsPerPage == 5

Min(a, b) == IF a < b THEN a ELSE b
Max(a, b) == IF a > b THEN a ELSE b

TotalPagesFloor(total_models) == total_models \div ModelsPerPage

\* ceiling division
TotalPages(total_models) == (total_models + ModelsPerPage - 1) \div ModelsPerPage

\* max(0, min(page, total_pages - 1))
ClampPage(page, total_pages) == Max(0, Min(page, total_pages - 1))

\* free_models[start_idx:end_idx] of the clamped page
PageModels(free_models, page) ==
    LET start_idx == page * ModelsPerPage
        end_idx == Min(start_idx + ModelsPerPage, Len(free_models))
    IN  SubSeq(free_models, start_idx + 1, end_idx)

\* the numeral of an int, as in an f-string
IntStr(n) == IF n < 0 THEN <<"-">> \o Str(-n) ELSE Str(n)

IsDigit(tok) == \E d \in 0..9 : Digit(d) = tok
DigitValue(tok) == CHOOSE d \in 0..9 : Digit(d) = tok

RECURSIVE ParseNat(_)
ParseNat(digits) ==
    IF digits = <<>> THEN 0
    ELSE 10 * ParseNat(SubSeq(digits, 1, Len(digits) - 1))
         + DigitValue(digits[Len(digits)])

\* python: int(text); [ok, value], ok is FALSE where int() raises ValueError
ParseInt(text) ==
    LET digits == IF text # <<>> /\ Head(text) = "-" THEN Tail(text) ELSE text IN
    IF digits # <<>> /\ \A i \in 1..Len(digits) : IsDigit(digits[i])
    THEN [ok |-> TRUE,
          value |-> IF Head(text) = "-" THEN -ParseNat(digits) ELSE ParseNat(digits)]
    ELSE [ok |-> FALSE, value |-> 0]

Button(text, callback_data) == [text |-> text, callback_data |-> callback_data]

PageButtonData(page) == <<"page", ":">> \o IntStr(page)

\* page_navigation: int(query.data.split(':')[1])
RequestedPage(data) == ParseInt(Split(data, ":")[2])

ModelButton(model) ==
    Button((IF Get(model, "is_free", FALSE) THEN <<"FREE ">> ELSE <<>>) \o model.name,
           ModelButtonData(model.id))

NavButtonsAlways(page, total_pages) ==
    <<Button(<<"Prev">>, PageButtonData(page - 1)),
      Button(IntStr(page + 1) \o <<"/">> \o IntStr(total_pages), <<"noop">>),
      Button(<<"Next">>, PageButtonData(page + 1))>>

\* the navigation row: Prev, the page indicator, Next
NavButtons(page, total_pages) ==
    (IF page > 0 THEN <<Button(<<"Prev">>, PageButtonData(page - 1))>> ELSE <<>>)
    \o <<Button(IntStr(page + 1) \o <<"/">> \o IntStr(total_pages), <<"noop">>)>>
    \o (IF page < total_pages - 1
        THEN <<Button(<<"Next">>, PageButtonData(page + 1))>> ELSE <<>>)

\* the inline keyboard of the clamped page: one row per model, then the
\* navigation row
Keyboard(free_models, page) ==
    LET shown == PageModels(free_models, page) IN
    [i \in 1..Len(shown) |-> <<ModelButton(shown[i])>>]
    \o <<NavButtons(page, TotalPages(Len(free_models)))>>

SelectText(total_models, page, total_pages) ==
    <<"Available models (">> \o IntStr(total_models) \o <<" total) - Page ">>
    \o IntStr(page + 1) \o <<"/">> \o IntStr(total_pages)
    \o <<":\n\nSelect a model to chat with:">>

NoModelsText == <<"Could not find any free models. Please try again later.">>

\* {model['id']: model for model in free_models}: the last entry of an id wins
StorageOf(free_models) ==
    [id \in { free_models[i].id : i \in 1..Len(free_models) } |->
        free_models[CHOOSE i \in 1..Len(free_models) :
                        /\ free_models[i].id = id
                        /\ \A j \in (i + 1)..Len(free_models) : free_models[j].id # id]]

\* model_storage after display_models got free_models
StorageOnRender(storage, free_models) ==
    IF free_models = <<>> THEN storage ELSE StorageOf(free_models)

\* what display_models sends once it has free_models
RenderOutputs(u, free_models, requested, is_callback) ==
    IF free_models = <<>>
    THEN IF is_callback
         THEN <<AnswerQuery(u, <<"No models found">>),
                EditMessageText(u, NoModelsText, <<>>)>>
         ELSE <<ReplyText(u, NoModelsText, <<>>)>>
    ELSE LET total_pages == TotalPages(Len(free_models))
             page == ClampPage(requested, total_pages)
             select_text == SelectText(Len(free_models), page, total_pages)
             reply_markup == Keyboard(free_models, page)
         IN  IF is_callback
             THEN <<AnswerQuery(u, <<>>), EditMessageText(u, select_text, reply_markup)>>
             ELSE <<ReplyText(u, select_text, reply_markup)>>

\* display_models' except branch: what it sends for str(e)
ErrorOutputs(u, e, is_callback) ==
    LET text == <<"Error retrieving models: ">> \o e IN
    IF is_callback
    THEN <<AnswerQuery(u, <<"Error loading models">>), EditMessageText(u, text, <<>>)>>
    ELSE <<ReplyText(u, text, <<>>)>>

-----------------------------------------------------------------------------
(* display_models and page_navigation *)

PageTask(u, pc, is_callback, page, models_data, expect) ==
    [user |-> u, pc |-> pc, is_callback |-> is_callback, page |-> page,
     models_data |-> models_data, expect |-> expect,
     caller |-> "display_models", limit |-> NoLimit]

\* the suspended get_free_models(limit) of a direct caller
ClientTask(pc, limit, models_data, expect) ==
    [PageTask("", pc, FALSE, 0, models_data, expect)
        EXCEPT !.caller = "client", !.limit = limit]

One(t) == SetToBag({t})

\* display_models with models_data in hand: filter, store, render, return
Render(u, is_callback, page, source, models_data, expect, trigger) ==
    LET free_models == GetFreeModels(models_data, NoLimit) IN
    /\ model_storage' = StorageOnRender(model_storage, free_models)
    /\ io' = <<trigger>> \o RenderOutputs(u, free_models, page, is_callback)
    /\ done' = [NoDone EXCEPT !.kind = "display_models", !.user = u,
                              !.outcome = IF free_models = <<>> THEN "empty" ELSE "rendered",
                              !.replies = IF is_callback THEN 0 ELSE 1,
                              !.source = source, !.models_data = models_data,
                              !.expect = expect, !.free_models = free_models]

\* get_free_models -> get_available_models(use_cache=True): the cache branch,
\* and on a miss the GET up to its await; rest is the suspended handlers
\* that stay
LoadModels(u, is_callback, page, trigger, rest) ==
    LET cached == CachedModels(cache_file) IN
    IF cached.hit
    THEN /\ Render(u, is_callback, page, "cache", cached.models_data, persisted, trigger)
         /\ page_tasks' = rest
         /\ UNCHANGED <<cache_file, persisted>>
    ELSE /\ io' = <<trigger, GetModels>>
         /\ page_tasks' = rest (+) One(PageTask(u, "get", is_callback, page, <<>>, persisted))
         /\ UNCHANGED <<model_storage, cache_file, persisted, done>>

\* /models, up to the await of the "Fetching available models..." reply
DisplayModelsCommand(u, limit) ==
    /\ InFlight < limit
    /\ io' = <<Update("command", u, <<"/models">>),
               ReplyText(u, <<"Fetching available models...">>, <<>>)>>
    /\ page_tasks' = page_tasks (+) One(PageTask(u, "fetching", FALSE, 0, <<>>, NoExpect))
    /\ UNCHANGED <<SessionVars, model_storage, cache_file, persisted, done>>

\* /models resumed after that reply
DisplayModelsLoad(t) ==
    /\ BagIn(t, page_tasks)
    /\ t.pc = "fetching"
    /\ LoadModels(t.user, FALSE, t.page, Resume("reply_text", NoResponse), page_tasks (-) One(t))
    /\ UNCHANGED SessionVars

PageNavigationNoopReload(u, limit) ==
    /\ InFlight < limit
    /\ LoadModels(u, TRUE, 0, Update("callback_query", u, <<"noop">>), page_tasks)
    /\ UNCHANGED SessionVars

\* the page indicator pressed
PageNavigationNoop(u, limit) ==
    /\ InFlight < limit
    /\ io' = <<Update("callback_query", u, <<"noop">>),
               AnswerQuery(u, <<"Current page info">>)>>
    /\ done' = [NoDone EXCEPT !.kind = "page_navigation", !.user = u, !.outcome = "noop"]
    /\ UNCHANGED <<SessionVars, CatalogVars>>

\* the payloads that match the pattern ^page: : a keyboard rendered for a
\* longer list may still be in the chat, and a client may send a payload no
\* keyboard of the bot carried
PagePayloads ==
    { PageButtonData(p) : p \in (-1)..MaxPageRequest } \cup { <<"page", ":", "x">> }

ValueError(text) == <<"invalid literal for int() with base 10: ">> \o text

\* a callback whose payload starts with "page:": int() raises on a payload
\* that is no numeral, outside any try, and the exception leaves
\* page_navigation with nothing answered
PageNavigation(u, data, limit) ==
    /\ InFlight < limit
    /\ IF RequestedPage(data).ok
       THEN LoadModels(u, TRUE, RequestedPage(data).value,
                       Update("callback_query", u, data), page_tasks)
       ELSE /\ io' = <<Update("callback_query", u, data)>>
            /\ done' = [NoDone EXCEPT !.kind = "page_navigation", !.user = u,
                                      !.outcome = "raised",
                                      !.body = ValueError(Split(data, ":")[2])]
            /\ UNCHANGED CatalogVars
    /\ UNCHANGED SessionVars

\* the GET answered: a failure, of the GET or of os.makedirs, ends
\* display_models in its except branch; otherwise the call runs on to the
\* await of run_in_executor
FetchResponse(t, resp, made) ==
    /\ BagIn(t, page_tasks)
    /\ t.pc = "get"
    /\ LET result == SaveStart(FetchResult(resp), made) IN
       IF result.raised
       THEN /\ io' = <<Resume("get", resp)>>
                    \o (IF t.caller = "display_models"
                        THEN ErrorOutputs(t.user, result.value, t.is_callback)
                        ELSE <<>>)
            /\ done' = [NoDone EXCEPT !.kind = IF t.caller = "display_models"
                                               THEN "display_models"
                                               ELSE "get_free_models",
                                      !.user = t.user,
                                      !.outcome = "error", !.source = "fetch",
                                      !.replies = IF t.is_callback \/ t.caller = "client"
                                                  THEN 0 ELSE 1,
                                      !.body = resp.body, !.expect = t.expect,
                                      !.limit = t.limit]
            /\ page_tasks' = page_tasks (-) One(t)
       ELSE /\ io' = <<Resume("get", resp)>>
            /\ page_tasks' = (page_tasks (-) One(t))
                  (+) One([t EXCEPT !.pc = "saving", !.models_data = result.models_data])
            /\ UNCHANGED done
    /\ UNCHANGED <<SessionVars, model_storage, cache_file, persisted>>

\* the executor thread opens the cache file for writing; when open raises,
\* the file is as it was and _save_models_cache's except swallows the exception
CacheOpen(t, opened) ==
    /\ BagIn(t, page_tasks)
    /\ t.pc = "saving"
    /\ cache_file' = IF opened THEN FileOnOpen(cache_file) ELSE cache_file
    /\ persisted' = IF opened THEN NoExpect ELSE persisted
    /\ page_tasks' = (page_tasks (-) One(t))
          (+) One([t EXCEPT !.pc = IF opened THEN "writing" ELSE "saved"])
    /\ io' = <<Resume("thread_open", NoResponse)>>
    /\ UNCHANGED <<SessionVars, model_storage, done>>

\* the executor thread dumps the list and closes the file; when the write
\* raises after k tokens, the except of _save_models_cache swallows it
CacheWrite(t, k) ==
    /\ BagIn(t, page_tasks)
    /\ t.pc = "writing"
    /\ cache_file' = IF k = Len(DumpJson(t.models_data))
                     THEN FileOnWrite(cache_file, t.models_data)
                     ELSE FileOnPartialWrite(cache_file, t.models_data, k)
    /\ persisted' = IF k = Len(DumpJson(t.models_data))
                    THEN [valid |-> TRUE, models_data |-> t.models_data]
                    ELSE NoExpect
    /\ page_tasks' = (page_tasks (-) One(t)) (+) One([t EXCEPT !.pc = "saved"])
    /\ io' = <<Resume("thread_write", NoResponse)>>
    /\ UNCHANGED <<SessionVars, model_storage, done>>

\* get_available_models returns the fetched list: the rest of display_models
DisplayModelsResume(t) ==
    /\ BagIn(t, page_tasks)
    /\ t.pc = "saved"
    /\ t.caller = "display_models"
    /\ Render(t.user, t.is_callback, t.page, "fetch", t.models_data, t.expect,
              Resume("run_in_executor", NoResponse))
    /\ page_tasks' = page_tasks (-) One(t)
    /\ UNCHANGED <<SessionVars, cache_file, persisted>>

\* the catalog handlers: limit bounds the handlers in flight, env says what
\* may go wrong
CatalogStep(limit, env) ==
    \/ \E u \in Users : DisplayModelsCommand(u, limit)
    \/ \E t \in BagToSet(page_tasks) : DisplayModelsLoad(t)
    \/ \E u \in Users : PageNavigationNoop(u, limit)
    \/ \E u \in Users : \E data \in PagePayloads : PageNavigation(u, data, limit)
    \/ \E t \in BagToSet(page_tasks) : \E resp \in CatalogResponsesOver(env.catalogs) :
          \E made \in Outcomes(env.disk) : FetchResponse(t, resp, made)
    \/ \E t \in BagToSet(page_tasks) : \E opened \in Outcomes(env.disk) :
          CacheOpen(t, opened)
    \/ \E t \in BagToSet(page_tasks) :
          \E k \in WriteOutcomes(t.models_data, env.disk) : CacheWrite(t, k)
    \/ \E t \in BagToSet(page_tasks) : DisplayModelsResume(t)

-----------------------------------------------------------------------------
(* get_free_models called directly, as test_get_free_models does *)

Call(name, limit) == [op |-> "call", name |-> name, limit |-> limit]

\* get_free_models(limit) returns: the filter over the list
\* get_available_models handed it
Return(limit, source, models_data, expect, trigger) ==
    /\ io' = <<trigger>>
    /\ done' = [NoDone EXCEPT !.kind = "get_free_models", !.outcome = "returned",
                              !.source = source, !.models_data = models_data,
                              !.expect = expect, !.limit = limit,
                              !.free_models = GetFreeModels(models_data, limit)]

ClientGetFreeModelsRefresh(limit, in_flight) ==
    /\ InFlight < in_flight
    /\ io' = <<Call("get_free_models", limit), GetModels>>
    /\ page_tasks' = page_tasks (+) One(ClientTask("get", limit, <<>>, persisted))
    /\ done' = NoDone
    /\ UNCHANGED <<SessionVars, model_storage, cache_file, persisted>>

\* the call up to its first await: the cache branch of get_available_models,
\* and on a miss the GET; the caller drops the result of its previous call
ClientGetFreeModels(limit, in_flight) ==
    /\ InFlight < in_flight
    /\ LET cached == CachedModels(cache_file) IN
       IF cached.hit
       THEN /\ Return(limit, "cache", cached.models_data, persisted,
                      Call("get_free_models", limit))
            /\ UNCHANGED page_tasks
       ELSE /\ io' = <<Call("get_free_models", limit), GetModels>>
            /\ page_tasks' = page_tasks (+) One(ClientTask("get", limit, <<>>, persisted))
            /\ done' = NoDone
    /\ UNCHANGED <<SessionVars, model_storage, cache_file, persisted>>

\* get_available_models returns the fetched list to get_free_models
ClientResume(t) ==
    /\ BagIn(t, page_tasks)
    /\ t.pc = "saved"
    /\ t.caller = "client"
    /\ Return(t.limit, "fetch", t.models_data, t.expect,
              Resume("run_in_executor", NoResponse))
    /\ page_tasks' = page_tasks (-) One(t)
    /\ UNCHANGED <<SessionVars, model_storage, cache_file, persisted>>

\* direct calls of the client, the endpoint serving any bounded catalog
ClientStep(in_flight) ==
    \/ \E limit \in Limits : ClientGetFreeModels(limit, in_flight)
    \/ \E t \in BagToSet(page_tasks) :
          \E resp \in CatalogResponsesOver(BoundedCatalogs) : FetchResponse(t, resp, TRUE)
    \/ \E t \in BagToSet(page_tasks) : CacheOpen(t, TRUE)
    \/ \E t \in BagToSet(page_tasks) :
          CacheWrite(t, Len(DumpJson(t.models_data)))
    \/ \E t \in BagToSet(page_tasks) : ClientResume(t)

-----------------------------------------------------------------------------
(* The HTTP session of the client: openrouter_api.py, _get_session and close *)

\* self._session = None
NoSession == [state |-> "none", created |-> 0, closed |-> 0]

\* _get_session: the open session is reused, a new one is constructed when
\* there is none or it is closed
GetSession(s) ==
    IF s.state = "open" THEN s
    ELSE [s EXCEPT !.state = "open", !.created = @ + 1]

\* close: closes the session when there is an open one
CloseSession(s) ==
    IF s.state = "open" THEN [s EXCEPT !.state = "closed", !.closed = @ + 1]
    ELSE s

\* get_available_models and generate_response call _get_session right
\* before they send their request
UsesSession(step_io) ==
    \E i \in 1..Len(step_io) : step_io[i].op \in {"get", "post"}

SessionAfter(s, step_io) == IF UsesSession(step_io) THEN GetSession(s) ELSE s

-----------------------------------------------------------------------------
(* The process: main.py, and main() of telegram_bot.py *)

\* exit_code of a process that has not exited
NoExit == -1

\* the two scripts with an entry point
Entries == {"main.py", "telegram_bot.py"}

\* a process right after its start: token and api_key say whether
\* TELEGRAM_BOT_TOKEN and OPENROUTER_API_KEY are set to a non-empty value
Started(entry, token, api_key) ==
    [entry |-> entry, token |-> token, api_key |-> api_key,
     pc |-> "start", exit_code |-> NoExit]

\* a started process for every entry point and every environment
Processes ==
    { Started(entry, token, api_key) :
        entry \in Entries, token \in BOOLEAN, api_key \in BOOLEAN }

\* the process while the bot polls: started through main.py, both secrets set
Polling == [Started("main.py", TRUE, TRUE) EXCEPT !.pc = "running"]

Exited(p, code) == [p EXCEPT !.pc = "exited", !.exit_code = code]

Signal(name) == [op |-> "signal", name |-> name]
SetMyCommands == [op |-> "set_my_commands"]
StartPolling == [op |-> "start_polling"]

HandlerVars == <<SessionVars, CatalogVars, done>>

\* main.py run as a script: exit(1) when a secret is missing, else
\* asyncio.run(main()), which imports the bot and awaits its main()
MainPy ==
    /\ process.pc = "start"
    /\ process.entry = "main.py"
    /\ process' = IF ~process.token \/ ~process.api_key
                  THEN Exited(process, 1)
                  ELSE [process EXCEPT !.pc = "bot_main"]
    /\ UNCHANGED <<HandlerVars, http_session, io>>

\* telegram_bot.py run as a script: asyncio.run(main()) with no check
BotScript ==
    /\ process.pc = "start"
    /\ process.entry = "telegram_bot.py"
    /\ process' = [process EXCEPT !.pc = "bot_main"]
    /\ UNCHANGED <<HandlerVars, http_session, io>>

\* main() of the bot: the client is constructed, with no session; without a
\* token main returns and the process ends with code 0; with one the
\* application is built and set_my_commands is awaited
BotMain ==
    /\ process.pc = "bot_main"
    /\ http_session' = NoSession
    /\ IF ~process.token
       THEN /\ process' = Exited(process, 0)
            /\ UNCHANGED io
       ELSE /\ process' = [process EXCEPT !.pc = "commands"]
            /\ io' = <<Signal("main"), SetMyCommands>>
    /\ UNCHANGED HandlerVars

\* set_my_commands answered: the handlers are registered and the application
\* is initialized and started; an exception of one of these awaits is outside
\* the try of main and ends the process
BotStart(started) ==
    /\ process.pc = "commands"
    /\ process' = IF started THEN [process EXCEPT !.pc = "running"]
                  ELSE Exited(process, 1)
    /\ io' = IF started
             THEN <<Resume("set_my_commands", NoResponse), StartPolling>>
             ELSE <<Resume("set_my_commands", Raised(TimedOut))>>
    /\ UNCHANGED <<HandlerVars, http_session>>

\* the wait on stop_event is interrupted: the finally of main closes the
\* client's session and awaits application.stop(); the event loop goes on
\* running the handlers while main awaits
StopRequested ==
    /\ process.pc = "running"
    /\ process' = [process EXCEPT !.pc = "stopping"]
    /\ http_session' = CloseSession(http_session)
    /\ io' = <<Signal("interrupt")>>
    /\ UNCHANGED HandlerVars

\* the exit codes of an interrupted run: the interrupt, or an exception of
\* the finally block
InterruptCodes == {1, 130}

\* application.stop() and shutdown() have returned, or raised, and
\* asyncio.run cancels what is still suspended: the process ends
ApplicationStop(code) ==
    /\ process.pc = "stopping"
    /\ process' = Exited(process, code)
    /\ msg_tasks' = {}
    /\ page_tasks' = EmptyBag
    /\ io' = <<Resume("application.stop", NoResponse)>>
    /\ UNCHANGED <<user_sessions, appended, nmsg, model_storage, cache_file,
                   persisted, done, http_session>>

\* a step of the handlers or of the client: the event loop runs them from
\* start_polling until the process ends, and a request they send goes
\* through _get_session
Serve(step) ==
    /\ process.pc \in {"running", "stopping"}
    /\ step
    /\ http_session' = SessionAfter(http_session, io')
    /\ UNCHANGED process

\* the steps of the process itself
ProcessStep ==
    \/ MainPy
    \/ BotScript
    \/ BotMain
    \/ \E started \in BOOLEAN : BotStart(started)
    \/ StopRequested
    \/ \E code \in InterruptCodes : ApplicationStop(code)

-----------------------------------------------------------------------------
(* Specifications *)

\* Application.builder().token(token).build(): updates are handled one at a
\* time, a handler runs to its end before the next update is dispatched
SequentialDispatch == 1

\* the cache file at the start: absent, empty, or what an earlier run saved
InitFilesOver(catalogs) ==
    {NoFile, FileWith(<<>>)} \cup { FileWith(DumpJson(c)) : c \in catalogs }

InitFiles == InitFilesOver(Catalogs)

\* the state after the modules are loaded, the cache file being one of files
\* and the process one of processes
InitOver(files, processes) ==
    /\ process \in processes
    /\ http_session = NoSession
    /\ user_sessions = EmptyDict
    /\ model_storage = EmptyDict
    /\ cache_file \in files
    /\ msg_tasks = {}
    /\ page_tasks = EmptyBag
    /\ appended = [u \in Users |-> <<>>]
    /\ nmsg = [u \in Users |-> 0]
    /\ persisted = NoExpect
    /\ io = <<>>
    /\ done = NoDone

\* the same while the bot polls
InitWith(files) == InitOver(files, {Polling})

Init == InitWith(InitFiles)

InitChat == Init /\ cache_file = NoFile

NextChat == Serve(ChatStep(SequentialDispatch, MaxMsgs, Nominal))

SpecChat == InitChat /\ [][NextChat]_vars

\* the catalog handlers alone
NextCatalog == Serve(CatalogStep(SequentialDispatch, Nominal))

SpecCatalog == Init /\ [][NextCatalog]_vars

\* every handler, the endpoint serving the short catalogs
Next ==
    \/ Serve(ChatStep(SequentialDispatch, MaxMsgsAll, ShortLists))
    \/ Serve(CatalogStep(SequentialDispatch, ShortLists))

Spec == InitWith(InitFilesOver(ShortCatalogs)) /\ [][Next]_vars

\* every handler, where the typing indicator may raise and a completion may
\* lack fields
NextFaults ==
    \/ Serve(ChatStep(SequentialDispatch, MaxMsgsAll, FailingChat))
    \/ Serve(CatalogStep(SequentialDispatch, ShortLists))

SpecFaults == InitWith(InitFilesOver(ShortCatalogs)) /\ [][NextFaults]_vars

\* the client alone, called one call at a time, over any cache file a bounded
\* catalog was saved to
InitClient ==
    InitWith({NoFile} \cup { FileWith(DumpJson(c)) : c \in BoundedCatalogs })

NextClient == Serve(ClientStep(SequentialDispatch))

SpecClient == InitClient /\ [][NextClient]_vars

\* the chat handlers as coroutines that are interleaved at their awaits: what
\* the application does when asked for concurrent updates, which the build
\* at telegram_bot.py:274 does not ask for
NextConcurrent == Serve(ChatStep(MaxConcurrent, MaxMsgsConcurrent, Nominal))

SpecConcurrent == InitChat /\ [][NextConcurrent]_vars

\* the whole run of a process, from its start to its exit: every handler,
\* one list served, the cache file absent at the start
OneList == [Nominal EXCEPT !.catalogs = {SmallCatalog}]

NextProcess ==
    \/ ProcessStep
    \/ Serve(ChatStep(SequentialDispatch, MaxMsgsAll, OneList))
    \/ Serve(CatalogStep(SequentialDispatch, OneList))

SpecProcess == InitOver({NoFile}, Processes) /\ [][NextProcess]_vars

\* the catalog handlers over a disk that may fail
NextDisk == Serve(CatalogStep(SequentialDispatch, FailingDisk))

SpecDisk == Init /\ [][NextDisk]_vars

-----------------------------------------------------------------------------
(* Claims about the session store and the completion client *)

\* the update a step handled, when it handled one
StepUpdate(step_io, kind, u) ==
    IF Len(step_io) = 0 THEN FALSE
    ELSE /\ step_io[1].op = "update"
         /\ step_io[1].kind = kind
         /\ step_io[1].from = u

\* the await a step resumed from, when it resumed from one
StepResume(step_io, await) ==
    IF Len(step_io) = 0 THEN FALSE
    ELSE step_io[1].op = "resume" /\ step_io[1].await = await

History(u) == user_sessions[u]["chat_history"]

Idle(u) == \A t \in msg_tasks : t.user # u

LastN(s, k) == IF Len(s) > k THEN SubSeq(s, Len(s) - k + 1, Len(s)) ELSE s

\* C1: in every reachable state every session's chat_history has at most
\* HistoryLimit entries, also between the append of the user turn and the
\* completion, and after a failed completion.
C1_HistoryAtMostLimit ==
    \A u \in DOMAIN user_sessions : Len(History(u)) <= HistoryLimit

\* C2: a completion answered with a non-success status ends the handler with
\* exactly one reply, the error text holding the response body, and appends
\* nothing to the user's history.
C2_FailedCompletion ==
    [][\A t \in msg_tasks :
        (/\ StepResume(io', "post")
         /\ io'[1].resp.status # 200
         /\ t.pc = "posted"
         /\ t \notin msg_tasks')
        => /\ Len(io') = 2
           /\ io'[2].op = "reply_text"
           /\ io'[2].to = t.user
           /\ ContainsSeq(io'[2].text, io'[1].resp.body)
           /\ done'.replies = 1
           /\ user_sessions' = user_sessions]_vars

C2_Witness ==
    /\ done.kind = "handle_message"
    /\ done.outcome = "error"
    /\ done.body = InternalError
    /\ Len(io) = 2
    /\ History(done.user)[Len(History(done.user))] = UserTurn(Prompt(done.user, done.n))

\* C3: a free-text message of a user with no selected model gets the fixed
\* reply, sends no completion request, starts none, and leaves user_sessions
\* as it was.
C3_NoModelMessage ==
    [][\A u \in Users :
        (StepUpdate(io', "message", u) /\ NoModelSelected(user_sessions, u))
        => /\ Tail(io') = <<ReplyText(u, SelectModelFirst, <<>>)>>
           /\ msg_tasks' = msg_tasks
           /\ user_sessions' = user_sessions]_vars

C3_Witness ==
    /\ done.kind = "handle_message"
    /\ done.outcome = "no_model"
    /\ done.user \notin DOMAIN user_sessions
    /\ DOMAIN user_sessions # {}

\* C5: pressing the button rendered for a model id sets the user's
\* selected_model to exactly that id.
C5_SelectedIsButtonId ==
    done.kind = "model_selection"
    => user_sessions[done.user]["selected_model"] = done.id

\* C6: once more than HistoryLimit turns have been appended by a user's
\* message exchanges, the history is exactly the last HistoryLimit of them.
C6_LastTen ==
    \A u \in DOMAIN user_sessions :
        (Idle(u) /\ Len(appended[u]) > HistoryLimit)
        => History(u) = LastN(appended[u], HistoryLimit)

\* C7: the POST carries the given history followed by one user turn holding
\* the prompt, for the given model id, and the given history list is as it was.
C7_RequestIsHistoryThenPrompt ==
    \A i \in 1..Len(io) :
        io[i].op = "post"
        => /\ io[i].data.messages
                = io[i].call.chat_history \o <<UserTurn(io[i].call.prompt)>>
           /\ io[i].data.model = io[i].call.model_id
           /\ io[i].after = io[i].call.chat_history

C7_Witness ==
    /\ Len(io) = 2
    /\ io[2].op = "post"
    /\ Len(io[2].call.chat_history) >= 2
    /\ Len(io[2].data.messages) = Len(io[2].call.chat_history) + 1

-----------------------------------------------------------------------------
(* Claims about the dispatch layer and the catalog cache *)

Selected(sessions, u) == ~NoModelSelected(sessions, u)

\* C4: a user leaves "no model selected" only by a model-pick callback, and
\* once a model is selected no step of any handler takes the user back.
C4_SelectionOnlyGrows ==
    [][\A u \in Users :
        /\ Selected(user_sessions, u) => Selected(user_sessions', u)
        /\ (~Selected(user_sessions, u) /\ Selected(user_sessions', u))
           => /\ StepUpdate(io', "callback_query", u)
              /\ io'[1].data[1] = "model"]_vars

C4_Witness ==
    /\ done.kind = "reset_chat"
    /\ Selected(user_sessions, done.user)
    /\ nmsg[done.user] > 0
    /\ model_storage # EmptyDict

\* the step calls get_available_models: /models resumed, or a page callback
\* whose payload carries a numeral
CallsGetModels(step_io) ==
    \/ StepResume(step_io, "reply_text")
    \/ IF Len(step_io) = 0 THEN FALSE
       ELSE /\ step_io[1].op = "update"
            /\ step_io[1].kind = "callback_query"
            /\ step_io[1].data[1] = "page"
            /\ RequestedPage(step_io[1].data).ok

Sends(step_io, op) == \E i \in 1..Len(step_io) : step_io[i].op = op

CacheParses(file) == file.exists /\ LoadJson(file.text).ok

CacheHolds(file) == CacheParses(file) /\ LoadJson(file.text).value # <<>>

\* the call returned the parsed file in the calling step, with no GET, no
\* write and no handler left suspended
ServedFromCache ==
    /\ ~Sends(io', "get")
    /\ done'.kind = "display_models"
    /\ done'.source = "cache"
    /\ done'.models_data = LoadJson(cache_file.text).value
    /\ cache_file' = cache_file
    /\ page_tasks' = EmptyBag

\* C8 as claimed: whenever the cache file exists and parses, the empty list
\* included, get_available_models returns its contents with no fetch and no
\* write.
C8_AnyParsedCacheIsServed ==
    [][(CallsGetModels(io') /\ CacheParses(cache_file)) => ServedFromCache]_vars

\* C8 as amended: the same for a cache file that parses to a non-empty list;
\* and such a file is never rewritten, so no later call fetches.
C8_NonEmptyCacheIsServed ==
    [][/\ (CallsGetModels(io') /\ CacheHolds(cache_file)) => ServedFromCache
       /\ CacheHolds(cache_file) => cache_file' = cache_file]_vars

C8_Witness ==
    /\ done.kind = "display_models"
    /\ done.source = "cache"
    /\ done.models_data = LargeCatalog
    /\ CacheHolds(cache_file)
    /\ ~Sends(io, "get")

\* C9 as claimed: a call that follows a completed cache write of any list L
\* returns L.
C9_RoundTripAnyList ==
    (done.kind = "display_models" /\ done.expect.valid)
    => /\ done.outcome # "error"
       /\ done.models_data = done.expect.models_data

\* C9 as amended: a call that follows a completed cache write of a non-empty
\* list L returns L, read from the file.
C9_RoundTripNonEmpty ==
    (/\ done.kind = "display_models"
     /\ done.expect.valid
     /\ done.expect.models_data # <<>>)
    => /\ done.outcome # "error"
       /\ done.source = "cache"
       /\ done.models_data = done.expect.models_data

C9_Witness ==
    /\ done.kind = "display_models"
    /\ done.expect.valid
    /\ done.expect.models_data = SmallCatalog
    /\ done.source = "cache"
    /\ done.models_data = SmallCatalog

\* C10: a GET answered with a non-success status ends the call with an error
\* that holds the response body, with no list and the cache file as it was; a
\* GET answered with success has its whole list written over the cache file
\* and returned.
C10_FetchOutcome ==
    [][\A t \in BagToSet(page_tasks) :
        /\ (StepResume(io', "get") /\ io'[1].resp.status # 200 /\ t.pc = "get")
           => /\ done'.kind = "display_models"
              /\ done'.outcome = "error"
              /\ done'.models_data = <<>>
              /\ Len(io') >= 2
              /\ ContainsSeq(io'[Len(io')].text, io'[1].resp.body)
              /\ cache_file' = cache_file
              /\ model_storage' = model_storage
              /\ page_tasks' = page_tasks (-) One(t)
        /\ (StepResume(io', "get") /\ io'[1].resp.status = 200 /\ t.pc = "get")
           => page_tasks' = (page_tasks (-) One(t))
                 (+) One([t EXCEPT !.pc = "saving", !.models_data = io'[1].resp.data])
        /\ (StepResume(io', "run_in_executor") /\ t.pc = "saved")
           => /\ done'.kind = "display_models"
              /\ done'.source = "fetch"
              /\ done'.outcome # "error"
              /\ done'.models_data = t.models_data
              /\ cache_file' = FileWith(DumpJson(t.models_data))]_vars

C10_Witness ==
    /\ done.kind = "display_models"
    /\ done.source = "fetch"
    /\ done.outcome = "rendered"
    /\ done.models_data = LargeCatalog
    /\ cache_file = FileWith(DumpJson(LargeCatalog))

-----------------------------------------------------------------------------
(* Claims about the cache save *)

\* C11: once the GET has answered with success, whatever the disk does while
\* the list is saved (os.makedirs, open or the write raising), the call goes
\* on and returns the fetched list; no such failure ends it with an error.
C11_SaveFailureNeverSurfaces ==
    [][\A t \in BagToSet(page_tasks) :
        /\ (StepResume(io', "get") /\ io'[1].resp.status = 200 /\ t.pc = "get")
           => /\ done' = done
              /\ \E next \in BagToSet(page_tasks') :
                    next.pc = "saving" /\ next.models_data = io'[1].resp.data
        /\ (t.pc \in {"saving", "writing"})
           => \E next \in BagToSet(page_tasks') :
                    next.pc \in {t.pc, "writing", "saved"} /\ next.models_data = t.models_data
        /\ (StepResume(io', "run_in_executor") /\ t.pc = "saved")
           => /\ done'.kind = "display_models"
              /\ done'.outcome # "error"
              /\ done'.models_data = t.models_data]_vars

-----------------------------------------------------------------------------
(* Claims about the free filter *)

\* a returned direct call of get_free_models
Returned == done.kind = "get_free_models" /\ done.outcome = "returned"

\* "free" is in the text, in any case
NamesFree(text) == \E i \in 1..Len(text) : text[i] \in {"free", "Free", "FREE"}

FreeByIdOrName(entry) == NamesFree(entry.id) \/ NamesFree(entry.name)

\* how many entries of list carry e's id and name
Copies(list, e) ==
    Cardinality({ i \in 1..Len(list) : list[i].id = e.id /\ list[i].name = e.name })

\* C12: get_free_models with no limit returns one entry for each catalog
\* entry whose id or name contains "free" in any case, and none for any other
\* entry.
C12_ExactlyTheFreeEntries ==
    (Returned /\ ~done.limit.given)
    => /\ Len(done.free_models)
            = Cardinality({ i \in 1..Len(done.models_data) :
                                FreeByIdOrName(done.models_data[i]) })
       /\ \A e \in EntryPool :
            Copies(done.free_models, e)
                = IF FreeByIdOrName(e) THEN Copies(done.models_data, e) ELSE 0

C12_Witness ==
    /\ Returned
    /\ ~done.limit.given
    /\ done.models_data = <<ExampleFreeMini, PaidEntry, ExampleFree>>
    /\ [i \in 1..Len(done.free_models) |-> done.free_models[i].context_length]
            = <<8192, 4096>>

NonIncreasing(list) ==
    \A i \in 1..(Len(list) - 1) :
        list[i].context_length >= list[i + 1].context_length

\* C13 as claimed: the output is sorted by context_length, largest first, and
\* each returned descriptor's id, name, description and context_length are
\* those of an input entry.
C13_SortedCopiesOfInput ==
    Returned
    => /\ NonIncreasing(done.free_models)
       /\ \A j \in 1..Len(done.free_models) :
            \E i \in 1..Len(done.models_data) :
                LET d == done.free_models[j]
                    e == done.models_data[i]
                IN  /\ d.id = e.id
                    /\ d.name = e.name
                    /\ "description" \in DOMAIN e
                    /\ "context_length" \in DOMAIN e
                    /\ d.description = Get(e, "description", <<>>)
                    /\ d.context_length = Get(e, "context_length", 0)

\* C13 as amended: the same, where an input entry without a description
\* counts as description "" and one without a context_length as 4096.
C13_SortedCopiesWithDefaults ==
    Returned
    => /\ NonIncreasing(done.free_models)
       /\ \A j \in 1..Len(done.free_models) :
            \E i \in 1..Len(done.models_data) :
                LET d == done.free_models[j]
                    e == done.models_data[i]
                IN  /\ d.id = e.id
                    /\ d.name = e.name
                    /\ d.description
                         = (IF "description" \in DOMAIN e THEN e.description ELSE <<>>)
                    /\ d.context_length
                         = (IF "context_length" \in DOMAIN e THEN e.context_length ELSE 4096)

C13_Witness ==
    /\ Returned
    /\ done.models_data = <<FreeEntry(2), NameFreeEntry, ExampleFree>>
    /\ [i \in 1..Len(done.free_models) |-> done.free_models[i].id]
            = <<ExampleFree.id, NameFreeEntry.id, FreeEntry(2).id>>

\* C14: with a limit > 0 the result is the first min(limit, n) entries of the
\* full sorted free list; with no limit, 0 or a negative limit it is the full
\* list.
C14_LimitTruncates ==
    Returned
    => LET full == GetFreeModels(done.models_data, NoLimit)
           n == Len(full)
       IN  IF done.limit.given /\ done.limit.value > 0
           THEN /\ Len(done.free_models)
                     = (IF done.limit.value < n THEN done.limit.value ELSE n)
                /\ \A i \in 1..Len(done.free_models) : done.free_models[i] = full[i]
           ELSE done.free_models = full

C14_Witness ==
    /\ Returned
    /\ done.limit = [given |-> TRUE, value |-> 2]
    /\ Len(GetFreeModels(done.models_data, NoLimit)) = 3
    /\ Len(done.free_models) = 2

\* a step of a direct call of get_free_models: the call itself, or one of
\* its resumptions
ClientCallStep(step_io) ==
    IF Len(step_io) = 0 THEN FALSE
    ELSE step_io[1].op \in {"call", "resume"}

\* C15 as claimed: no step of a get_free_models call sends a GET, writes the
\* cache file or changes any state of the bot or the client.
C15_NoFetchNoWrite ==
    [][ClientCallStep(io')
        => /\ ~Sends(io', "get")
           /\ cache_file' = cache_file
           /\ user_sessions' = user_sessions
           /\ model_storage' = model_storage]_vars

\* C15 as amended: no step of a get_free_models call changes user_sessions
\* or model_storage; a call that finds a cache file holding a non-empty list
\* returns the filter's result over it with no GET and no write; a GET is
\* sent only by a call that finds no such file, and the cache file is written
\* only after that GET succeeded.
C15_EffectsOnlyOnCacheMiss ==
    [][ClientCallStep(io')
        => /\ user_sessions' = user_sessions
           /\ model_storage' = model_storage
           /\ (io'[1].op = "call" /\ CacheHolds(cache_file))
              => /\ ~Sends(io', "get")
                 /\ cache_file' = cache_file
                 /\ page_tasks' = page_tasks
                 /\ done'.kind = "get_free_models"
                 /\ done'.outcome = "returned"
                 /\ done'.models_data = LoadJson(cache_file.text).value
           /\ Sends(io', "get")
              => io'[1].op = "call" /\ ~CacheHolds(cache_file)
           /\ cache_file' # cache_file
              => \E t \in BagToSet(page_tasks) :
                    /\ t.pc \in {"saving", "writing"}
                    /\ t.caller = "client"]_vars

C15_Witness ==
    /\ Returned
    /\ done.source = "cache"
    /\ Len(done.free_models) = 2
    /\ io = <<Call("get_free_models", NoLimit)>>
    /\ cache_file = FileWith(DumpJson(done.models_data))

-----------------------------------------------------------------------------
(* Claims about pagination and the dispatch of callbacks *)

\* the message a step sent last
Shown(step_io) == step_io[Len(step_io)]

\* the step rendered a page: its last message carries a keyboard, and done
\* is then the display_models call that returned in this step
Rendered(step_io) ==
    /\ Len(step_io) >= 2
    /\ Shown(step_io).op \in {"reply_text", "edit_message_text"}
    /\ Shown(step_io).reply_markup # <<>>

\* the page the rendering step was asked for: the numeral of the callback's
\* payload, or the page of the handler the step resumed
RequestedBy(step_io, tasks) ==
    IF step_io[1].op = "update"
    THEN RequestedPage(step_io[1].data).value
    ELSE (CHOOSE t \in BagToSet(tasks) : t.pc \in {"fetching", "saved"}).page

\* C16: for a non-empty free list of n entries the keyboard is rendered for
\* ceil(n / ModelsPerPage) pages; the requested page, negative or beyond the
\* last one included, is shown as the nearest page of 0..pages-1; and the
\* model buttons are the non-empty slice of that page, taken from the free
\* list of the catalog as it is at this call.
C16_PageIsClampedSlice ==
    [][Rendered(io')
       => LET n == Len(done'.free_models)
              requested == RequestedBy(io', page_tasks)
              sent == Shown(io')
          IN
          /\ done'.kind = "display_models"
          /\ done'.outcome = "rendered"
          /\ done'.free_models = GetFreeModels(LoadJson(cache_file'.text).value, NoLimit)
          /\ \E pages \in 1..n :
               /\ ModelsPerPage * (pages - 1) < n
               /\ n <= ModelsPerPage * pages
               /\ LET p == IF requested < 0 THEN 0
                           ELSE IF requested > pages - 1 THEN pages - 1
                           ELSE requested
                      shown == Len(sent.reply_markup) - 1
                  IN  /\ sent.text = SelectText(n, p, pages)
                      /\ shown > 0
                      /\ shown = (IF n - ModelsPerPage * p < ModelsPerPage
                                  THEN n - ModelsPerPage * p ELSE ModelsPerPage)
                      /\ \A i \in 1..shown :
                           sent.reply_markup[i]
                               = <<ModelButton(done'.free_models[ModelsPerPage * p + i])>>]_vars

C16_Witness ==
    /\ Rendered(io)
    /\ Len(done.free_models) = 12
    /\ io[1].op = "update"
    /\ io[1].data = PageButtonData(3)
    /\ Shown(io).text = SelectText(12, 2, 3)
    /\ Len(Shown(io).reply_markup) = 3

\* C17: the page indicator's callback is answered and nothing else happens:
\* user_sessions, model_storage and the cache file are as they were, no request
\* is sent and no handler is left suspended.
C17_NoopChangesNothing ==
    [][\A u \in Users :
        (StepUpdate(io', "callback_query", u) /\ io'[1].data = <<"noop">>)
        => /\ Len(io') = 2
           /\ io'[2].op = "answer"
           /\ io'[2].to = u
           /\ user_sessions' = user_sessions
           /\ model_storage' = model_storage
           /\ cache_file' = cache_file
           /\ msg_tasks' = msg_tasks
           /\ page_tasks' = page_tasks]_vars

C17_Witness ==
    /\ done.kind = "page_navigation"
    /\ done.outcome = "noop"
    /\ Len(io) = 2
    /\ io[1].op = "update"
    /\ io[1].data = <<"noop">>
    /\ io[2].op = "answer"
    /\ DOMAIN user_sessions # {}
    /\ model_storage # EmptyDict
    /\ cache_file.exists

-----------------------------------------------------------------------------
(* Claims about failures and retries *)

\* C18: no exception leaves a handler: every handler call that an exception
\* ended has caught it and sent the user a message.
C18_NoExceptionLeavesAHandler == done.outcome # "raised"

\* how many operations op the step performed
Count(step_io, op) == Cardinality({ i \in 1..Len(step_io) : step_io[i].op = op })

\* C19: a free-text message sends at most one POST, on its way from the
\* typing indicator to the await of the answer, and whatever the answer, the
\* handler ends with one reply and no further request; a /models command or
\* a page callback sends at most one GET, when get_available_models is
\* called, and none once the GET was answered.
C19_NoRetries ==
    [][/\ Count(io', "post") + Count(io', "get") <= 1
       /\ Sends(io', "post")
          => /\ StepResume(io', "send_chat_action")
             /\ \E t \in msg_tasks :
                    /\ t.pc = "typing"
                    /\ msg_tasks' = (msg_tasks \ {t}) \cup {[t EXCEPT !.pc = "posted"]}
       /\ \A t \in msg_tasks :
            (t.pc = "posted" /\ StepResume(io', "post"))
            => /\ msg_tasks' = msg_tasks \ {t}
               /\ Len(io') = 2
               /\ io'[2].op = "reply_text"
               /\ io'[1].resp.status # 200
                  => /\ done'.outcome = "error"
                     /\ ContainsSeq(io'[2].text, io'[1].resp.body)
       /\ Sends(io', "get")
          => /\ CallsGetModels(io')
             /\ \E t \in BagToSet(page_tasks') :
                    t.pc = "get" /\ CopiesIn(t, page_tasks') = CopiesIn(t, page_tasks) + 1
       /\ \A t \in BagToSet(page_tasks) :
            t.pc # "fetching" => ~Sends(io', "get")]_vars

C19_Witness ==
    /\ done.kind = "handle_message"
    /\ done.outcome = "error"
    /\ StepResume(io, "post")
    /\ io[1].resp.status = 500
    /\ Count(io, "post") = 0
    /\ msg_tasks = {}
    /\ model_storage # EmptyDict

\* C20: a success-status completion whose JSON lacks "choices", has an empty
\* "choices", a first choice without "message" or a message without "content"
\* makes generate_response return the empty string, with no error: the
\* handler appends an assistant turn with empty content.
C20_MissingFieldsGiveEmptyString ==
    [][\A t \in msg_tasks :
        (/\ StepResume(io', "post")
         /\ io'[1].resp \in MalformedCompletions
         /\ t.pc = "posted")
        => /\ done'.outcome = "ok"
           /\ user_sessions'[t.user]["chat_history"]
                = LimitHistory(Append(user_sessions[t.user]["chat_history"],
                                      AssistantTurn(<<>>)))]_vars

-----------------------------------------------------------------------------
(* Claims about a failed generation, /reset and the model pick *)

UserRole(turn) == turn.role = "user"

OthersKept(u) ==
    /\ DOMAIN user_sessions' \ {u} = DOMAIN user_sessions \ {u}
    /\ \A v \in DOMAIN user_sessions \ {u} : user_sessions'[v] = user_sessions[v]

\* C26: /reset of a user with a session empties that session's history and
\* leaves its selected model and every other session as they were; /reset of
\* a user with no session leaves user_sessions as it was; a model pick sets
\* selected_model only: an existing history stays, a missing session is
\* created with an empty history, and every other session is as it was.
C26_ResetAndPickFrame ==
    [][\A u \in Users :
        /\ (StepUpdate(io', "command", u) /\ io'[1].data = <<"/reset">>)
           => IF u \in DOMAIN user_sessions
              THEN /\ OthersKept(u)
                   /\ DOMAIN user_sessions'[u] = DOMAIN user_sessions[u]
                   /\ user_sessions'[u]["chat_history"] = <<>>
                   /\ \A k \in DOMAIN user_sessions[u] \ {"chat_history"} :
                        user_sessions'[u][k] = user_sessions[u][k]
              ELSE user_sessions' = user_sessions
        /\ (StepUpdate(io', "callback_query", u) /\ io'[1].data[1] = "model")
           => /\ OthersKept(u)
              /\ DOMAIN user_sessions'[u] = {"chat_history", "selected_model"}
              /\ user_sessions'[u]["chat_history"]
                    = (IF u \in DOMAIN user_sessions
                       THEN user_sessions[u]["chat_history"] ELSE <<>>)
              /\ model_storage' = model_storage]_vars

\* a /reset of a user who sent messages, while the other user holds a
\* history and another selected model
C26_Witness ==
    /\ done.kind = "reset_chat"
    /\ done.user \in DOMAIN user_sessions
    /\ History(done.user) = <<>>
    /\ nmsg[done.user] > 0
    /\ "selected_model" \in DOMAIN user_sessions[done.user]
    /\ \E v \in DOMAIN user_sessions \ {done.user} :
          /\ Len(History(v)) >= 2
          /\ user_sessions[v]["selected_model"] # user_sessions[done.user]["selected_model"]

-----------------------------------------------------------------------------
(* Claims about the navigation row *)

\* the buttons of a keyboard, row after row
RECURSIVE Buttons(_)
Buttons(markup) ==
    IF markup = <<>> THEN <<>> ELSE Head(markup) \o Buttons(Tail(markup))

HasButton(row, text) == \E i \in 1..Len(row) : row[i].text = text

ButtonOf(row, text) == row[CHOOSE i \in 1..Len(row) : row[i].text = text]

\* the step told the user that no free model was found
ShownEmpty(step_io) ==
    /\ Len(step_io) >= 2
    /\ Shown(step_io).op \in {"reply_text", "edit_message_text"}
    /\ Shown(step_io).text = NoModelsText

\* C28: the last row of a rendered keyboard holds Prev iff the shown page p
\* is > 0, with payload page:(p-1), and Next iff p < pages - 1, with payload
\* page:(p+1); every page payload of the keyboard names a page of
\* 0..pages-1 of the list it was rendered from; and a call that finds no
\* free model sends no keyboard and leaves model_storage as it was.
C28_NavButtonsStayInRange ==
    [][/\ Rendered(io')
          => LET n == Len(done'.free_models)
                 sent == Shown(io')
                 row == sent.reply_markup[Len(sent.reply_markup)]
                 all == Buttons(sent.reply_markup)
             IN  \E pages \in 1..n : \E p \in 0..(pages - 1) :
                   /\ ModelsPerPage * (pages - 1) < n
                   /\ n <= ModelsPerPage * pages
                   /\ sent.text = SelectText(n, p, pages)
                   /\ HasButton(row, <<"Prev">>) <=> p > 0
                   /\ HasButton(row, <<"Prev">>)
                      => ButtonOf(row, <<"Prev">>).callback_data = <<"page", ":">> \o IntStr(p - 1)
                   /\ HasButton(row, <<"Next">>) <=> p < pages - 1
                   /\ HasButton(row, <<"Next">>)
                      => ButtonOf(row, <<"Next">>).callback_data = <<"page", ":">> \o IntStr(p + 1)
                   /\ \A i \in 1..Len(all) :
                        all[i].callback_data[1] = "page"
                        => /\ ParseInt(SubSeq(all[i].callback_data, 3,
                                              Len(all[i].callback_data))).ok
                           /\ ParseInt(SubSeq(all[i].callback_data, 3,
                                              Len(all[i].callback_data))).value
                                \in 0..(pages - 1)
       /\ ShownEmpty(io')
          => /\ \A i \in 2..Len(io') : io'[i].reply_markup = <<>>
             /\ model_storage' = model_storage]_vars

\* the middle page of three: both buttons
C28_Witness ==
    /\ Rendered(io)
    /\ Len(done.free_models) = 12
    /\ Shown(io).text = SelectText(12, 1, 3)
    /\ LET row == Shown(io).reply_markup[Len(Shown(io).reply_markup)] IN
       /\ Len(row) = 3
       /\ row[1].callback_data = PageButtonData(0)
       /\ row[3].callback_data = PageButtonData(2)

-----------------------------------------------------------------------------
(* Claims about the start and the end of the process *)

SecretMissing == ~process.token \/ ~process.api_key

\* C21: a process started without TELEGRAM_BOT_TOKEN or without
\* OPENROUTER_API_KEY never gets to build or start the bot, performs no
\* network operation, and when it has exited its exit code is 1.
C21_MissingSecretExitsOne ==
    SecretMissing
    => /\ process.pc \in {"start", "bot_main", "exited"}
       /\ process.pc = "exited" => process.exit_code = 1
       /\ io = <<>>
       /\ http_session = NoSession

OpenSessions(s) == s.created - s.closed

\* C22: at most one session is open at any time; a request goes through the
\* open session when there is one, and a session is constructed only when
\* there is none or it is closed; and once the process has ended no session
\* is left open.
C22_OneSessionClosedAtExit ==
    [][/\ OpenSessions(http_session') <= 1
       /\ UsesSession(io')
          => /\ http_session'.state = "open"
             /\ http_session'.created
                  = http_session.created + (IF http_session.state = "open" THEN 0 ELSE 1)
       /\ ~UsesSession(io') => http_session'.created = http_session.created
       /\ process'.pc = "exited" => OpenSessions(http_session') = 0]_vars

-----------------------------------------------------------------------------
(* Claims about interleaved handlers *)

\* the suspended handle_message calls the step resumed
Resumed == msg_tasks \ msg_tasks'

Occurrences(list, x) == Cardinality({ i \in 1..Len(list) : list[i] = x })

Acting(u) ==
    \/ IF Len(io') = 0 THEN FALSE
       ELSE io'[1].op = "update" /\ io'[1].from = u
    \/ \E t \in Resumed : t.user = u

\* the text names user u: prompts and completions carry their user
Names(text, u) == \E i \in 1..Len(text) : text[i] = u

\* C27: a step of a handler of user a, whatever handlers of other users are
\* suspended, leaves every other user's session as it was, creates none for
\* another user, talks to a only, and neither its request nor its replies
\* hold a turn or a text of another user: every message of its completion
\* request is a turn of a.
C27_SessionIsolation ==
    [][\A a \in Users :
        Acting(a)
        => /\ \A b \in Users \ {a} :
                /\ b \in DOMAIN user_sessions' <=> b \in DOMAIN user_sessions
                /\ b \in DOMAIN user_sessions => user_sessions'[b] = user_sessions[b]
                /\ \A i \in 2..Len(io') :
                     /\ io'[i].op = "post"
                        => \A k \in 1..Len(io'[i].data.messages) :
                             /\ Names(io'[i].data.messages[k].content, a)
                             /\ ~Names(io'[i].data.messages[k].content, b)
                     /\ io'[i].op # "post"
                        => /\ io'[i].to = a
                           /\ ~Names(io'[i].text, b)
           /\ \A i \in 2..Len(io') :
                io'[i].op = "post"
                => \E t \in Resumed :
                     /\ t.user = a
                     /\ io'[i].data.model = t.selected_model]_vars

\* a request of one user sent while a handler of the other user is
\* suspended and the other user's history holds a turn
C27_Witness ==
    /\ Len(io) = 2
    /\ io[2].op = "post"
    /\ \E t \in msg_tasks : \E o \in msg_tasks :
          /\ t.pc = "posted"
          /\ io[2].call.prompt = t.user_message
          /\ o.user # t.user
          /\ Len(History(o.user)) >= 1
          /\ Len(History(t.user)) >= 1

=============================================================================
